---- MODULE Spec2Model ----
(***************************************************************************)
(* Model of src/assembler.py: a two-pass assembler for a 16-bit toy CPU.   *)
(*                                                                         *)
(* Strings are TLA+ strings; Len, \o, SubSeq, Head and Tail act on them as *)
(* on sequences of characters.  The state is the module-level state of the *)
(* script (labels, instructions), the locals of pass2 while it runs, and   *)
(* what has been printed on standard output.                               *)
(***************************************************************************)
EXTENDS Integers, Sequences, FiniteSets, TLC

VARIABLES
    src,            \* fp.readlines(): the lines of the source file
    tokens,         \* result of tokenize(fp)
    labels,         \* module-level dict  labels = {}
    instructions,   \* module-level list  instructions = []
    pc,             \* position of the script
    idx,            \* pass2: 1-based position of `line` in instructions
    instr, reg, reg2, reg3, num, full_instr,   \* pass2 locals
    label,          \* pass2 local: <<>> while it is "", <<a>> once it is the
                    \* address a
    list,           \* pass2: the words built so far
    out,            \* lines printed on stdout by the current call of main
    err,            \* exception that ended the run ("" when none)
    run,            \* number of calls of main made in this process
    prev,           \* instructions/labels/out at the end of the previous call
    fn, d, v        \* a call  v = fn(d, linenum)  of dec2comp8 / dec2bin8

vars == <<src, tokens, labels, instructions, pc, idx, instr, reg, reg2, reg3,
          num, label, full_instr, list, out, err, run, prev, fn, d, v>>

passVars == <<src, tokens, labels, instructions, pc, idx, instr, reg, reg2,
              reg3, num, label, full_instr, list, out, err, run, prev>>

convVars == <<fn, d, v>>

(***************************************************************************)
(* Bounds of the model.                                                    *)
(***************************************************************************)
MaxLines == 2        \* lines of a source file over the whole instruction set
MaxLabelLines == 3   \* lines of a source file over the label-related lines
MaxRuns == 2         \* calls of main in one process
MaxNumLen == 10      \* length at which a non-terminating padding loop is cut
ConvMax == 300       \* dec2comp8 / dec2bin8 are applied to -ConvMax..ConvMax

(***************************************************************************)
(* Python primitives.                                                      *)
(***************************************************************************)
Min(a, b) == IF a < b THEN a ELSE b
Max(a, b) == IF a > b THEN a ELSE b

\* s[i-1] of Python, for 1 <= i <= Len(s)
Ch(s, i) == SubSeq(s, i, i)

\* s[0:n] of Python (n may be negative or exceed the length)
PySlice0(s, n) ==
    IF n >= 0 THEN SubSeq(s, 1, Min(n, Len(s)))
              ELSE SubSeq(s, 1, Max(0, Len(s) + n))

\* s[2:] of Python
PyFrom2(s) == SubSeq(s, 3, Len(s))

\* format(n, 'b') for n > 0, most significant bit first
RECURSIVE BinDigits(_)
BinDigits(n) ==
    IF n <= 0 THEN ""
    ELSE BinDigits(n \div 2) \o (IF n % 2 = 1 THEN "1" ELSE "0")

\* format(n, 'b')
FormatB(n) ==
    IF n = 0 THEN "0"
    ELSE IF n > 0 THEN BinDigits(n)
    ELSE "-" \o BinDigits(-n)

\* bin(n)
Bin(n) ==
    IF n = 0 THEN "0b0"
    ELSE IF n > 0 THEN "0b" \o BinDigits(n)
    ELSE "-0b" \o BinDigits(-n)

\* n.bit_length()
BitLength(n) == Len(BinDigits(IF n < 0 THEN -n ELSE n))

DigitChars == "0123456789"
IsDigit(c) == \E k \in 1..10 : Ch(DigitChars, k) = c
DigitVal(c) == (CHOOSE k \in 1..10 : Ch(DigitChars, k) = c) - 1

RECURSIVE DecVal(_)
DecVal(s) ==
    IF s = "" THEN 0
    ELSE DecVal(SubSeq(s, 1, Len(s) - 1)) * 10 + DigitVal(Ch(s, Len(s)))

AllDigits(s) == Len(s) > 0 /\ \A i \in 1..Len(s) : IsDigit(Ch(s, i))

\* int(s) for a token s: an optional sign and decimal digits, else ValueError
IntOk(s) ==
    \/ AllDigits(s)
    \/ Len(s) > 1 /\ Head(s) \in {"-", "+"} /\ AllDigits(Tail(s))
IntVal(s) ==
    IF Head(s) = "-" THEN 0 - DecVal(Tail(s))
    ELSE IF Head(s) = "+" THEN DecVal(Tail(s))
    ELSE DecVal(s)

HexChars == "0123456789ABCDEF"
RECURSIVE HexDigits(_)
HexDigits(n) ==
    IF n <= 0 THEN ""
    ELSE HexDigits(n \div 16) \o Ch(HexChars, (n % 16) + 1)

\* "%02X" % n  for n >= 0
Hex02(n) ==
    LET h == HexDigits(n) IN
    IF Len(h) = 0 THEN "00" ELSE IF Len(h) = 1 THEN "0" \o h ELSE h

UpperChars == "ABCDEFGHIJKLMNOPQRSTUVWXYZ"
LowerChars == "abcdefghijklmnopqrstuvwxyz"
LowerCh(c) ==
    IF \E k \in 1..26 : Ch(UpperChars, k) = c
    THEN Ch(LowerChars, CHOOSE k \in 1..26 : Ch(UpperChars, k) = c)
    ELSE c

\* word.lower()
RECURSIVE Lower(_)
Lower(s) == IF s = "" THEN "" ELSE LowerCh(Head(s)) \o Lower(Tail(s))

IsSpace(c) == c \in {" ", "\t", "\n", "\r"}

RECURSIVE LStrip(_)
LStrip(s) == IF s # "" /\ IsSpace(Head(s)) THEN LStrip(Tail(s)) ELSE s
RECURSIVE RStrip(_)
RStrip(s) ==
    IF s # "" /\ IsSpace(Ch(s, Len(s)))
    THEN RStrip(SubSeq(s, 1, Len(s) - 1)) ELSE s

\* line.strip()
Strip(s) == RStrip(LStrip(s))

\* the characters of ls before its first '#'
RECURSIVE CutComment(_)
CutComment(s) ==
    IF s = "" \/ Head(s) = "#" THEN ""
    ELSE Head(s) \o CutComment(Tail(s))

\* uls.split(): the maximal runs of non-space characters;
\* cur is the run being read
RECURSIVE SplitFrom(_, _)
SplitFrom(s, cur) ==
    IF s = "" THEN (IF cur = "" THEN <<>> ELSE <<cur>>)
    ELSE IF IsSpace(Head(s))
         THEN (IF cur = "" THEN <<>> ELSE <<cur>>) \o SplitFrom(Tail(s), "")
         ELSE SplitFrom(Tail(s), cur \o Head(s))
Split(s) == SplitFrom(s, "")

\* Op(arg) with the argument evaluated before the call, as Python does
Call(Op(_), arg) == CHOOSE r \in { Op(y) : y \in {arg} } : TRUE

LowerAll(words) == [k \in 1..Len(words) |-> Call(Lower, words[k])]

\* the body of the loop of tokenize for one line: <<>> for a skipped line,
\* else the list holding its list of lower-case words
LineTokens(line) ==
    LET uls == Call(CutComment, Call(Strip, line)) IN
    IF Len(uls) = 0 THEN <<>> ELSE <<Call(LowerAll, Call(Split, uls))>>

\* tokenize(fp): one list of lower-case words per non-blank line
RECURSIVE TokenizeLines(_)
TokenizeLines(lines) ==
    IF lines = <<>> THEN <<>>
    ELSE Call(LineTokens, Head(lines)) \o TokenizeLines(Tail(lines))

(***************************************************************************)
(* pass1.  A dict is a function on the set of its keys.                    *)
(***************************************************************************)
EmptyDict == [k \in {} |-> 0]
DictSet(dct, k, val) ==
    [x \in (DOMAIN dct) \cup {k} |-> IF x = k THEN val ELSE dct[x]]

IsLabelLine(line) == Ch(line[1], Len(line[1])) = ":"
LabelName(line) == SubSeq(line[1], 1, Len(line[1]) - 1)

\* the loop of pass1 over toks, started with the given labels, instructions
\* and counter; yields the final labels and instructions
RECURSIVE Pass1Loop(_, _, _, _)
Pass1Loop(toks, labs, ins, counter) ==
    IF toks = <<>> THEN [labels |-> labs, instructions |-> ins]
    ELSE IF IsLabelLine(Head(toks))
         THEN Pass1Loop(Tail(toks),
                        DictSet(labs, LabelName(Head(toks)), counter),
                        ins, counter)
         ELSE Pass1Loop(Tail(toks), labs, Append(ins, Head(toks)),
                        counter + 1)

(***************************************************************************)
(* dec2comp8 and dec2bin8.  The result is a returned string, or an abort   *)
(* (the print/exit branch; the try block of dec2comp8 raises nothing on an *)
(* int).                                                                   *)
(***************************************************************************)
Returned(s) == [kind |-> "return", val |-> s]
Aborted == [kind |-> "abort", val |-> ""]

dec2comp8(n) ==
    IF n > 0
    THEN Returned(PySlice0("00000000", 8 - BitLength(n)) \o FormatB(n))
    ELSE IF n < 0
    THEN LET dt == 128 + n IN
         Returned(PySlice0("10000000", 8 - BitLength(dt)) \o FormatB(dt))
    ELSE Returned("00000000")

dec2bin8(n) ==
    IF n > 0
    THEN Returned(PySlice0("00000000", 8 - BitLength(n)) \o FormatB(n))
    ELSE IF n = 0 THEN Returned("00000000")
    ELSE Aborted

(***************************************************************************)
(* pass2: the CPU tables and the messages it stores as words.              *)
(***************************************************************************)
\* tableB with the codes of rc and rd exchanged
tableB_Exchanged == [ra |-> "000", rb |-> "001", rc |-> "011", rd |-> "010",
                     re |-> "100", sp |-> "101"]
tableB == [ra |-> "000", rb |-> "001", rc |-> "010", rd |-> "011",
           re |-> "100", sp |-> "101"]
tableC == [ra |-> "000", rb |-> "001", rc |-> "010", rd |-> "011",
           re |-> "100", sp |-> "101", pc |-> "110", cr |-> "111"]
tableD == [ra |-> "000", rb |-> "001", rc |-> "010", rd |-> "011",
           re |-> "100", sp |-> "101", pc |-> "110", ir |-> "111"]
tableE == [ra |-> "000", rb |-> "001", rc |-> "010", rd |-> "011",
           re |-> "100", sp |-> "101",
           zero |-> "000000000000000", one |-> "111111111111111"]

ErrTooLong == "ERROR: an instruction is too long, CHECK: unneeded arguments"
ErrNotFound ==
    "ERROR: an instruction is not found, CHECK: spelling and spacing"

Header ==
    "-- program memory file for text.a \nDEPTH = 256;\nWIDTH = 16;\nADDRESS_RADIX = HEX;\nDATA_RADIX = BIN;\nCONTENT\nBEGIN"

MemOps == [load |-> "00000", loada |-> "00001", store |-> "00010",
           storea |-> "00011"]
BraOps == [bra |-> "0010", braz |-> "00110000", bran |-> "00110010",
           brao |-> "00110001", brac |-> "00110011"]
AluOps == [add |-> "1000", sub |-> "1001", and |-> "1010", or |-> "1011",
           xor |-> "1100"]
ShiftOps == [shiftl |-> "11010", shiftr |-> "11011", rotl |-> "11100",
             rotr |-> "11101"]
PushPopOps == [push |-> "0100", pop |-> "0101"]
PortOps == [oport |-> "0110", iport |-> "0111"]

Mnemonics ==
    (DOMAIN MemOps) \cup (DOMAIN BraOps) \cup (DOMAIN AluOps)
    \cup (DOMAIN ShiftOps) \cup (DOMAIN PushPopOps) \cup (DOMAIN PortOps)
    \cup {"call", "return", "halt", "move", "movei"}

(***************************************************************************)
(* Source files of the model.                                              *)
(***************************************************************************)
SourceLines ==
    { "load ra 0", "LOADA rb 255", "store rc 7", "storea sp 128",
      "bra a", "braz a", "bran a", "brao a", "brac a", "call a",
      "return", "halt", "push ra", "pop rb",
      "oport pc", "oport ir", "iport rd",
      "add ra rb rc", "sub rd re sp", "and sp ra rb", "or rb rb rb",
      "xor re rd ra", "shiftl ra rb", "shiftr rc rd", "rotl re sp",
      "rotr sp ra", "move ir re", "move rb rc",
      "  MOVEI 5 ra  # five", "movei 255 sp",
      "a:", "# comment only",
      "add zero ra rb", "rotl one ra",
      "movei 256 ra", "movei -5 ra", "load ra -1",
      "nop", "halt ra rb rc rd", "halt ra", "bra missing", "load rx 1",
      "movei 5", "iport cr" }

LabelLines == { "a:", "Loop:  # top", "halt", "bra a", "call loop" }

SeqUpTo(S, n) == UNION { [1..k -> S] : k \in 0..n }

Programs == SeqUpTo(SourceLines, MaxLines) \cup SeqUpTo(LabelLines, MaxLabelLines)

(***************************************************************************)
(* The script.  pc: main -> start -> tokenized -> pass1done -> loop        *)
(* (<-> pad) -> done, or aborted when an exception leaves main.            *)
(***************************************************************************)
Line == instructions[idx]
InLoop == pc = "loop" /\ idx <= Len(instructions)
Dispatch(ops) == InLoop /\ Len(Line) <= 4 /\ Line[1] \in ops

\* an uncaught exception: the traceback goes to stderr and the process ends;
\* the frame of pass2, and whatever it assigned before raising, is dropped
Raise(e) ==
    /\ pc' = "aborted"
    /\ err' = e
    /\ UNCHANGED <<src, tokens, labels, instructions, idx, instr, reg, reg2,
                   reg3, num, label, full_instr, list, out, run, prev>>

\* full_instr = word; list.append(full_instr); next line
Store(word) ==
    /\ full_instr' = word
    /\ list' = Append(list, word)
    /\ idx' = idx + 1
    /\ pc' = "loop"

\* main: fp = open( argv[1], 'r' ).  The first call finds a file with any of
\* the source texts of the model; a later call finds the file unchanged.
Open ==
    /\ pc = "main"
    /\ src' \in (IF run = 1 THEN Programs ELSE {src})
    /\ pc' = "start"
    /\ UNCHANGED <<tokens, labels, instructions, idx, instr, reg, reg2, reg3,
                   num, label, full_instr, list, out, err, run, prev>>

\* main: tokens = tokenize( fp )
Tokenize ==
    /\ pc = "start"
    /\ tokens' = TokenizeLines(src)
    /\ pc' = "tokenized"
    /\ UNCHANGED <<src, labels, instructions, idx, instr, reg, reg2, reg3,
                   num, label, full_instr, list, out, err, run, prev>>

\* main: pass1(tokens), on the module-level labels and instructions
Pass1 ==
    /\ pc = "tokenized"
    /\ LET r == Pass1Loop(tokens, labels, instructions, 0) IN
         /\ labels' = r.labels
         /\ instructions' = r.instructions
    /\ pc' = "pass1done"
    /\ UNCHANGED <<src, tokens, idx, instr, reg, reg2, reg3, num, label,
                   full_instr, list, out, err, run, prev>>

\* main: pass2(instructions, labels), up to the loop over the lines
Pass2Enter ==
    /\ pc = "pass1done"
    /\ instr' = "" /\ reg' = "" /\ reg2' = "" /\ reg3' = ""
    /\ num' = "" /\ label' = <<>> /\ full_instr' = ""
    /\ list' = <<>>
    /\ idx' = 1
    /\ pc' = "loop"
    /\ UNCHANGED <<src, tokens, labels, instructions, out, err, run, prev>>

EncTooLong ==
    /\ InLoop /\ Len(Line) > 4
    /\ Store(ErrTooLong)
    /\ UNCHANGED <<src, tokens, labels, instructions, instr, reg, reg2, reg3,
                   num, label, out, err, run, prev>>

\* load, loada, store, storea up to the padding loop
EncMem ==
    /\ Dispatch(DOMAIN MemOps)
    /\ IF Len(Line) < 2 THEN Raise("IndexError")
       ELSE IF Line[2] \notin DOMAIN tableB THEN Raise("KeyError")
       ELSE IF Len(Line) < 3 THEN Raise("IndexError")
       ELSE IF ~IntOk(Line[3]) THEN Raise("ValueError")
       ELSE /\ instr' = MemOps[Line[1]]
            /\ reg' = tableB[Line[2]]
            /\ num' = PyFrom2(Bin(IntVal(Line[3])))
            /\ pc' = "pad"
            /\ UNCHANGED <<src, tokens, labels, instructions, idx, reg2,
                           reg3, label, full_instr, list, out, err, run,
                           prev>>

\* bra, braz, bran, brao, brac up to the padding loop
EncBranch ==
    /\ Dispatch(DOMAIN BraOps)
    /\ IF Len(Line) < 2 THEN Raise("IndexError")
       ELSE IF Line[2] \notin DOMAIN labels THEN Raise("KeyError")
       ELSE /\ instr' = BraOps[Line[1]]
            /\ label' = <<labels[Line[2]]>>
            /\ num' = PyFrom2(Bin(labels[Line[2]]))
            /\ out' = IF Line[1] = "brao"
                      THEN Append(out, PyFrom2(Bin(labels[Line[2]])))
                      ELSE out
            /\ pc' = "pad"
            /\ UNCHANGED <<src, tokens, labels, instructions, idx, reg, reg2,
                           reg3, full_instr, list, err, run, prev>>

\* call up to the padding loop
EncCall ==
    /\ Dispatch({"call"})
    /\ IF Len(Line) < 2 THEN Raise("IndexError")
       ELSE IF Line[2] \notin DOMAIN labels THEN Raise("KeyError")
       ELSE /\ instr' = "001101"
            /\ label' = <<labels[Line[2]]>>
            /\ num' = PyFrom2(Bin(labels[Line[2]]))
            /\ pc' = "pad"
            /\ UNCHANGED <<src, tokens, labels, instructions, idx, reg, reg2,
                           reg3, full_instr, list, out, err, run, prev>>

\* return, halt
EncFixed ==
    /\ Dispatch({"return", "halt"})
    /\ IF Line[1] = "return"
       THEN /\ out' = Append(out, "return")
            /\ Store("0011100000000000")
       ELSE /\ out' = out
            /\ Store("0011110000000000")
    /\ UNCHANGED <<src, tokens, labels, instructions, instr, reg, reg2, reg3,
                   num, label, err, run, prev>>

\* push, pop: only instr is assigned; full_instr keeps its last value
EncPushPop ==
    /\ Dispatch(DOMAIN PushPopOps)
    /\ instr' = PushPopOps[Line[1]]
    /\ Store(full_instr)
    /\ UNCHANGED <<src, tokens, labels, instructions, reg, reg2, reg3, num,
                   label, out, err, run, prev>>

\* oport (tableD), iport (tableB)
EncPort ==
    /\ Dispatch(DOMAIN PortOps)
    /\ LET table == IF Line[1] = "oport" THEN tableD ELSE tableB IN
       IF Len(Line) < 2 THEN Raise("IndexError")
       ELSE IF Line[2] \notin DOMAIN table THEN Raise("KeyError")
       ELSE /\ instr' = PortOps[Line[1]]
            /\ reg' = table[Line[2]]
            /\ Store(PortOps[Line[1]] \o table[Line[2]] \o "000000000")
            /\ UNCHANGED <<src, tokens, labels, instructions, reg2, reg3,
                           num, label, out, err, run, prev>>

\* add, sub, and, or, xor
EncAlu ==
    /\ Dispatch(DOMAIN AluOps)
    /\ IF Len(Line) < 2 THEN Raise("IndexError")
       ELSE IF Line[2] \notin DOMAIN tableE THEN Raise("KeyError")
       ELSE IF Len(Line) < 3 THEN Raise("IndexError")
       ELSE IF Line[3] \notin DOMAIN tableE THEN Raise("KeyError")
       ELSE IF Len(Line) < 4 THEN Raise("IndexError")
       ELSE IF Line[4] \notin DOMAIN tableB THEN Raise("KeyError")
       ELSE /\ instr' = AluOps[Line[1]]
            /\ reg' = tableE[Line[2]]
            /\ reg2' = tableE[Line[3]]
            /\ reg3' = tableB[Line[4]]
            /\ Store(AluOps[Line[1]] \o tableE[Line[2]] \o tableE[Line[3]]
                     \o "000" \o tableB[Line[4]])
            /\ UNCHANGED <<src, tokens, labels, instructions, num, label,
                           out, err, run, prev>>

\* shiftl, shiftr, rotl, rotr
EncShift ==
    /\ Dispatch(DOMAIN ShiftOps)
    /\ IF Len(Line) < 2 THEN Raise("IndexError")
       ELSE IF Line[2] \notin DOMAIN tableE THEN Raise("KeyError")
       ELSE IF Len(Line) < 3 THEN Raise("IndexError")
       ELSE IF Line[3] \notin DOMAIN tableB THEN Raise("KeyError")
       ELSE /\ instr' = ShiftOps[Line[1]]
            /\ reg' = tableE[Line[2]]
            /\ reg2' = tableB[Line[3]]
            /\ Store(ShiftOps[Line[1]] \o tableE[Line[2]] \o "00000"
                     \o tableB[Line[3]])
            /\ UNCHANGED <<src, tokens, labels, instructions, reg3, num,
                           label, out, err, run, prev>>

EncMove ==
    /\ Dispatch({"move"})
    /\ IF Len(Line) < 2 THEN Raise("IndexError")
       ELSE IF Line[2] \notin DOMAIN tableD THEN Raise("KeyError")
       ELSE IF Len(Line) < 3 THEN Raise("IndexError")
       ELSE IF Line[3] \notin DOMAIN tableB THEN Raise("KeyError")
       ELSE /\ instr' = "11110"
            /\ reg' = tableD[Line[2]]
            /\ reg2' = tableB[Line[3]]
            /\ Store("11110" \o tableD[Line[2]] \o "00000"
                     \o tableB[Line[3]])
            /\ UNCHANGED <<src, tokens, labels, instructions, reg3, num,
                           label, out, err, run, prev>>

\* movei up to the padding loop
EncMovei ==
    /\ Dispatch({"movei"})
    /\ IF Len(Line) < 2 THEN Raise("IndexError")
       ELSE IF ~IntOk(Line[2]) THEN Raise("ValueError")
       ELSE /\ instr' = "11111"
            /\ num' = PyFrom2(Bin(IntVal(Line[2])))
            /\ pc' = "pad"
            /\ UNCHANGED <<src, tokens, labels, instructions, idx, reg, reg2,
                           reg3, label, full_instr, list, out, err, run,
                           prev>>

EncUnknown ==
    /\ InLoop /\ Len(Line) <= 4 /\ Line[1] \notin Mnemonics
    /\ Store(ErrNotFound)
    /\ UNCHANGED <<src, tokens, labels, instructions, instr, reg, reg2, reg3,
                   num, label, out, err, run, prev>>

\* one iteration of  while len(num) != 8: num = "0" + num.
\* Once num is longer than 8 the loop never ends and num grows for ever;
\* the model stops lengthening it at MaxNumLen.
PadLoop ==
    /\ pc = "pad"
    /\ Len(num) # 8
    /\ num' = IF Len(num) < MaxNumLen THEN "0" \o num ELSE num
    /\ UNCHANGED <<src, tokens, labels, instructions, pc, idx, instr, reg,
                   reg2, reg3, label, full_instr, list, out, err, run, prev>>

\* the statements after the padding loop, and list.append(full_instr)
PadDone ==
    /\ pc = "pad"
    /\ Len(num) = 8
    /\ IF Line[1] \in DOMAIN MemOps
       THEN /\ Store(instr \o reg \o num)
            /\ UNCHANGED <<reg2, out, err>>
       ELSE IF Line[1] = "bra"
       THEN /\ Store(instr \o "0000" \o num)
            /\ UNCHANGED <<reg2, out, err>>
       ELSE IF Line[1] \in DOMAIN BraOps
       THEN /\ Store(instr \o num)
            /\ UNCHANGED <<reg2, out, err>>
       ELSE IF Line[1] = "call"
       THEN /\ Store(instr \o "00" \o num)
            /\ out' = Append(out, instr \o "00" \o num)
            /\ UNCHANGED <<reg2, err>>
       ELSE \* movei
            IF Len(Line) < 3
            THEN /\ pc' = "aborted" /\ err' = "IndexError"
                 /\ UNCHANGED <<idx, reg2, full_instr, list, out>>
            ELSE IF Line[3] \notin DOMAIN tableB
            THEN /\ pc' = "aborted" /\ err' = "KeyError"
                 /\ UNCHANGED <<idx, reg2, full_instr, list, out>>
            ELSE /\ reg2' = tableB[Line[3]]
                 /\ Store(instr \o num \o tableB[Line[3]])
                 /\ UNCHANGED <<out, err>>
    /\ UNCHANGED <<src, tokens, labels, instructions, instr, reg, reg3, num,
                   label, run, prev>>

\* the text of the content line of word w at 0-based address a
PlainLine(a, w) == Hex02(a) \o " : " \o w \o ";"
RangeLine(a, w) == "[" \o Hex02(a) \o "...FF] : " \o w \o ";"
ImageLine(words, k) ==
    IF words[k] # words[Len(words)]
    THEN PlainLine(k - 1, words[k])
    ELSE RangeLine(k - 1, words[k])

\* the header and the loop over enumerate(list); then main closes the file
Emit ==
    /\ pc = "loop"
    /\ idx > Len(instructions)
    /\ out' = out \o <<Header>>
                  \o [k \in 1..Len(list) |-> ImageLine(list, k)]
    /\ pc' = "done"
    /\ UNCHANGED <<src, tokens, labels, instructions, idx, instr, reg, reg2,
                   reg3, num, label, full_instr, list, err, run, prev>>

\* main is called again in the same process on the unchanged file
Rerun ==
    /\ pc = "done"
    /\ run < MaxRuns
    /\ prev' = [instructions |-> instructions, labels |-> labels,
                out |-> out]
    /\ run' = run + 1
    /\ out' = <<>>
    /\ pc' = "main"
    /\ UNCHANGED <<src, tokens, labels, instructions, idx, instr, reg, reg2,
                   reg3, num, label, full_instr, list, err>>

NoCall == [kind |-> "none", val |-> ""]
NoPrev == [instructions |-> <<>>, labels |-> EmptyDict, out |-> <<>>]

Init ==
    /\ src = <<>>
    /\ tokens = <<>>
    /\ labels = EmptyDict
    /\ instructions = <<>>
    /\ pc = "main"
    /\ idx = 0
    /\ instr = "" /\ reg = "" /\ reg2 = "" /\ reg3 = ""
    /\ num = "" /\ label = <<>> /\ full_instr = ""
    /\ list = <<>>
    /\ out = <<>>
    /\ err = ""
    /\ run = 1
    /\ prev = NoPrev
    /\ fn = "none" /\ d = 0 /\ v = NoCall

Step ==
    \/ (Open /\ UNCHANGED convVars)
    \/ (Tokenize /\ UNCHANGED convVars)
    \/ (Pass1 /\ UNCHANGED convVars)
    \/ (Pass2Enter /\ UNCHANGED convVars)
    \/ (EncTooLong /\ UNCHANGED convVars)
    \/ (EncMem /\ UNCHANGED convVars)
    \/ (EncBranch /\ UNCHANGED convVars)
    \/ (EncCall /\ UNCHANGED convVars)
    \/ (EncFixed /\ UNCHANGED convVars)
    \/ (EncPushPop /\ UNCHANGED convVars)
    \/ (EncPort /\ UNCHANGED convVars)
    \/ (EncAlu /\ UNCHANGED convVars)
    \/ (EncShift /\ UNCHANGED convVars)
    \/ (EncMove /\ UNCHANGED convVars)
    \/ (EncMovei /\ UNCHANGED convVars)
    \/ (EncUnknown /\ UNCHANGED convVars)
    \/ (PadLoop /\ UNCHANGED convVars)
    \/ (PadDone /\ UNCHANGED convVars)
    \/ (Emit /\ UNCHANGED convVars)

Next ==
    \/ Step
    \/ (Rerun /\ UNCHANGED convVars)

Spec == Init /\ [][Next]_vars

\* a started call of main keeps executing: the script is single-threaded and
\* nothing suspends it.  Whether main is called again is left open.
FairSpec == Spec /\ WF_vars(Step)

(***************************************************************************)
(* The two conversion functions applied to an integer.                     *)
(***************************************************************************)
InitConv ==
    /\ src = <<>>
    /\ tokens = <<>>
    /\ labels = EmptyDict
    /\ instructions = <<>>
    /\ pc = "idle"
    /\ idx = 0
    /\ instr = "" /\ reg = "" /\ reg2 = "" /\ reg3 = ""
    /\ num = "" /\ label = <<>> /\ full_instr = ""
    /\ list = <<>>
    /\ out = <<>>
    /\ err = ""
    /\ run = 1
    /\ prev = NoPrev
    /\ fn = "none" /\ v = NoCall
    /\ d \in (0 - ConvMax)..ConvMax

CallDec2comp8 ==
    /\ fn = "none"
    /\ fn' = "dec2comp8"
    /\ v' = dec2comp8(d)
    /\ UNCHANGED d
    /\ UNCHANGED passVars

CallDec2bin8 ==
    /\ fn = "none"
    /\ fn' = "dec2bin8"
    /\ v' = dec2bin8(d)
    /\ UNCHANGED d
    /\ UNCHANGED passVars

NextConv == CallDec2comp8 \/ CallDec2bin8

SpecConv == InitConv /\ [][NextConv]_vars

(***************************************************************************)
(* The encoding table of the specification (section 4.3), written as       *)
(* arithmetic on field values.                                             *)
(***************************************************************************)
\* the w-bit unsigned binary numeral of n, most significant bit first
RECURSIVE Bits(_, _)
Bits(n, w) ==
    IF w = 0 THEN ""
    ELSE Bits(n \div 2, w - 1) \o (IF n % 2 = 1 THEN "1" ELSE "0")

IsBitString(w) == \A k \in 1..Len(w) : Ch(w, k) \in {"0", "1"}
IsWord16(w) == Len(w) = 16 /\ IsBitString(w)
StartsWith(w, p) == Len(w) >= Len(p) /\ SubSeq(w, 1, Len(p)) = p

SpecOpcode ==
    [load |-> "00000", loada |-> "00001", store |-> "00010",
     storea |-> "00011", bra |-> "0010", braz |-> "00110000",
     bran |-> "00110010", brao |-> "00110001", brac |-> "00110011",
     call |-> "001101", return |-> "0011100000000000",
     halt |-> "0011110000000000", push |-> "0100", pop |-> "0101",
     oport |-> "0110", iport |-> "0111", add |-> "1000", sub |-> "1001",
     and |-> "1010", or |-> "1011", xor |-> "1100", shiftl |-> "11010",
     shiftr |-> "11011", rotl |-> "11100", rotr |-> "11101",
     move |-> "11110", movei |-> "11111"]

SpecRegNo == [ra |-> 0, rb |-> 1, rc |-> 2, rd |-> 3, re |-> 4, sp |-> 5,
              pc |-> 6, ir |-> 7]
RegField(r) == Bits(SpecRegNo[r], 3)

DestRegs == {"ra", "rb", "rc", "rd", "re", "sp"}
MovSrcRegs == DestRegs \cup {"pc", "ir"}
AluSrcRegs == DestRegs \cup {"zero", "one"}

MemM == {"load", "loada", "store", "storea"}
BraM == {"bra", "braz", "bran", "brao", "brac", "call"}
AluM == {"add", "sub", "and", "or", "xor"}
ShiftM == {"shiftl", "shiftr", "rotl", "rotr"}

\* number of operands of a mnemonic
Arity(m) ==
    IF m \in {"return", "halt"} THEN 0
    ELSE IF m \in BraM \cup {"push", "pop", "oport", "iport"} THEN 1
    ELSE IF m \in AluM THEN 3
    ELSE 2

IsByteLiteral(t) == AllDigits(t) /\ DecVal(t) <= 255

\* a valid instruction line: a mnemonic of the table with operands of its
\* roles; aluSrc is the set of registers allowed as ALU/shift sources
ValidLine(line, labs, aluSrc) ==
    /\ line[1] \in DOMAIN SpecOpcode
    /\ Len(line) = 1 + Arity(line[1])
    /\ line[1] \in MemM =>
           line[2] \in DestRegs /\ IsByteLiteral(line[3])
    /\ line[1] \in BraM =>
           line[2] \in DOMAIN labs /\ labs[line[2]] \in 0..255
    /\ line[1] \in {"push", "pop", "iport"} => line[2] \in DestRegs
    /\ line[1] = "oport" => line[2] \in MovSrcRegs
    /\ line[1] \in AluM =>
           line[2] \in aluSrc /\ line[3] \in aluSrc /\ line[4] \in DestRegs
    /\ line[1] \in ShiftM => line[2] \in aluSrc /\ line[3] \in DestRegs
    /\ line[1] = "move" => line[2] \in MovSrcRegs /\ line[3] \in DestRegs
    /\ line[1] = "movei" => IsByteLiteral(line[2]) /\ line[3] \in DestRegs

\* the lines claim C1 is about
Covered(line, labs) ==
    ValidLine(line, labs, DestRegs) /\ line[1] \notin {"push", "pop"}

\* the word of the table for a covered line
SpecWord(line, labs) ==
    LET m == line[1]
        op == SpecOpcode[m] IN
    IF m \in MemM THEN op \o RegField(line[2]) \o Bits(DecVal(line[3]), 8)
    ELSE IF m = "bra" THEN op \o "0000" \o Bits(labs[line[2]], 8)
    ELSE IF m = "call" THEN op \o "00" \o Bits(labs[line[2]], 8)
    ELSE IF m \in BraM THEN op \o Bits(labs[line[2]], 8)
    ELSE IF m \in {"return", "halt"} THEN op
    ELSE IF m \in {"oport", "iport"}
         THEN op \o RegField(line[2]) \o "000000000"
    ELSE IF m \in AluM
         THEN op \o RegField(line[2]) \o RegField(line[3]) \o "000"
                 \o RegField(line[4])
    ELSE IF m = "movei" THEN op \o Bits(DecVal(line[2]), 8) \o RegField(line[3])
    ELSE op \o RegField(line[2]) \o "00000" \o RegField(line[3])

ValidStream ==
    \A k \in 1..Len(instructions) :
        ValidLine(instructions[k], labels, AluSrcRegs)

\* the content lines of the image: what follows the header on stdout
HeaderAt(k) == k \in 1..Len(out) /\ out[k] = Header
HasImage == \E k \in 1..Len(out) : HeaderAt(k)
Content == LET h == CHOOSE k \in 1..Len(out) : HeaderAt(k)
           IN  SubSeq(out, h + 1, Len(out))

(***************************************************************************)
(* C1: every covered line (table mnemonic other than push/pop, registers   *)
(* ra..sp plus pc/ir as source of move and oport, literal or label address *)
(* in 0..255) is stored as the word of the table; `movei 5 ra`, `halt`     *)
(* gives 1111100000101000 then 0011110000000000, and `bra loop` with loop  *)
(* at address 0 gives 0010000000000000.                                    *)
(***************************************************************************)
C1_TableWords ==
    /\ Len(list) <= Len(instructions)
    /\ \A k \in 1..Len(list) :
           Covered(instructions[k], labels) =>
               list[k] = SpecWord(instructions[k], labels)
    /\ (/\ pc = "done"
        /\ instructions = << <<"movei", "5", "ra">>, <<"halt">> >>)
           => list = <<"1111100000101000", "0011110000000000">>
    /\ \A k \in 1..Len(list) :
           (/\ instructions[k][1] = "bra"
            /\ Len(instructions[k]) = 2
            /\ instructions[k][2] \in DOMAIN labels
            /\ labels[instructions[k][2]] = 0)
               => list[k] = "0010000000000000"

C1_Witness ==
    /\ pc = "done"
    /\ instructions = << <<"movei", "5", "ra">>, <<"halt">> >>
    /\ list = <<"1111100000101000", "0011110000000000">>
    /\ Content = <<"00 : 1111100000101000;",
                   "[01...FF] : 0011110000000000;">>

(***************************************************************************)
(* C2: for a valid instruction stream (push/pop and the pseudo-registers   *)
(* zero/one included) pass2 produces one word per instruction and every    *)
(* word is 16 characters, each 0 or 1.                                     *)
(***************************************************************************)
C2_OneWord16PerInstruction ==
    (pc = "done" /\ ValidStream) =>
        /\ Len(list) = Len(instructions)
        /\ \A k \in 1..Len(list) : IsWord16(list[k])

(***************************************************************************)
(* C3: after pass1 every label maps to the number of instruction lines     *)
(* that precede its definition line, and the instruction stream is exactly *)
(* the non-label lines in source order.                                    *)
(***************************************************************************)
InstrBefore(toks, p) ==
    Cardinality({q \in 1..(p - 1) : ~IsLabelLine(toks[q])})
NonLabelLines(toks) == SelectSeq(toks, LAMBDA l : ~IsLabelLine(l))

C3_AddressStable ==
    pc = "pass1done" =>
        /\ \A p \in 1..Len(tokens) :
               IsLabelLine(tokens[p]) =>
                   /\ LabelName(tokens[p]) \in DOMAIN labels
                   /\ labels[LabelName(tokens[p])] = InstrBefore(tokens, p)
        /\ instructions = NonLabelLines(tokens)

(***************************************************************************)
(* C4: a second run on the unchanged source, in the same process, ends     *)
(* with the instruction stream, label table and output of the first run.   *)
(***************************************************************************)
C4_Idempotent ==
    (pc = "done" /\ run > 1) =>
        /\ instructions = prev.instructions
        /\ labels = prev.labels
        /\ out = prev.out

(***************************************************************************)
(* C5: for -128 <= d <= 127, dec2comp8(d) returns the 8-character two's    *)
(* complement numeral of d.                                                *)
(***************************************************************************)
TwosComp8(n) == Bits(IF n < 0 THEN 256 + n ELSE n, 8)

C5_TwosComplement ==
    (fn = "dec2comp8" /\ d >= -128 /\ d <= 127) =>
        v = Returned(TwosComp8(d))

(***************************************************************************)
(* C6: an out-of-range value never yields a returned bit string (dec2bin8  *)
(* outside 0..255, dec2comp8 outside -128..127) nor an emitted word (the   *)
(* address/immediate of load, loada, store, storea, movei): the run aborts *)
(* without an image.                                                       *)
(***************************************************************************)
LiteralOf(line) ==
    IF line[1] \in MemM /\ Len(line) >= 3 THEN line[3]
    ELSE IF line[1] = "movei" /\ Len(line) >= 2 THEN line[2]
    ELSE "0"
OutOfRange(line) ==
    /\ Len(line) <= 4
    /\ IntOk(LiteralOf(line))
    /\ IntVal(LiteralOf(line)) \notin 0..255

C6_RangeRejection ==
    /\ (fn = "dec2bin8" /\ d \notin 0..255) => v.kind = "abort"
    /\ (fn = "dec2comp8" /\ d \notin (-128)..127) => v.kind = "abort"
    /\ \A k \in 1..Len(list) : ~OutOfRange(instructions[k])
    /\ (\E k \in 1..Len(instructions) : OutOfRange(instructions[k]))
           => ~HasImage

\* the part of C6 about pass2 alone
C6_NoWordOutOfRange ==
    /\ \A k \in 1..Len(list) : ~OutOfRange(instructions[k])
    /\ (\E k \in 1..Len(instructions) : OutOfRange(instructions[k]))
           => ~HasImage

(***************************************************************************)
(* C7: if a line has an unknown mnemonic, too many operands, a register    *)
(* absent from its role table or an undefined label, pass2 prints nothing  *)
(* and ends in an error; an ERROR placeholder is never a word.             *)
(***************************************************************************)
RoleTable(m, pos) ==
    IF m \in AluM /\ pos < 4 THEN DOMAIN tableE
    ELSE IF m \in ShiftM /\ pos = 2 THEN DOMAIN tableE
    ELSE IF m \in {"move", "oport"} /\ pos = 2 THEN DOMAIN tableD
    ELSE DOMAIN tableB
IsRegPos(m, pos) ==
    \/ m \in MemM \cup {"push", "pop", "oport", "iport"} /\ pos = 2
    \/ m \in AluM /\ pos \in 2..4
    \/ m \in ShiftM \cup {"move"} /\ pos \in 2..3
    \/ m = "movei" /\ pos = 3
EncodingFailure(line, labs) ==
    \/ line[1] \notin DOMAIN SpecOpcode
    \/ /\ line[1] \in DOMAIN SpecOpcode
       /\ \/ Len(line) > 1 + Arity(line[1])
          \/ \E pos \in 2..Len(line) :
                 IsRegPos(line[1], pos) /\ line[pos] \notin RoleTable(line[1], pos)
          \/ line[1] \in BraM /\ Len(line) >= 2 /\ line[2] \notin DOMAIN labs

C7_WholeRunAbort ==
    /\ \A k \in 1..Len(list) : list[k] \notin {ErrTooLong, ErrNotFound}
    /\ (/\ pc \in {"loop", "pad", "done", "aborted"}
        /\ \E k \in 1..Len(instructions) :
               EncodingFailure(instructions[k], labels))
           => (out = <<>> /\ pc # "done")

(***************************************************************************)
(* C8: the image has one content line per word in address order; the line  *)
(* of address i is `HH : word;`, and exactly the final instruction has the *)
(* range form `[HH...FF] : word;`.                                         *)
(***************************************************************************)
C8_ImageLines ==
    pc = "done" =>
        /\ HasImage
        /\ Len(Content) = Len(list)
        /\ \A k \in 1..Len(list) :
               Content[k] = IF k = Len(list)
                            THEN RangeLine(k - 1, list[k])
                            ELSE PlainLine(k - 1, list[k])

(***************************************************************************)
(* C9: the opcode bit strings are prefix-free, and for an accepted stream  *)
(* the word at index i starts with the opcode bits of the mnemonic of      *)
(* instruction i (push: 0100, pop: 0101).                                  *)
(***************************************************************************)
PrefixFree ==
    \A a, b \in DOMAIN SpecOpcode :
        a # b => ~StartsWith(SpecOpcode[b], SpecOpcode[a])

C9_OpcodeIdentifies ==
    /\ PrefixFree
    /\ pc = "done" =>
           \A k \in 1..Len(list) :
               instructions[k][1] \in DOMAIN SpecOpcode =>
                   StartsWith(list[k], SpecOpcode[instructions[k][1]])

(***************************************************************************)
(* C10: pass2 terminates: every run reaches image emission or an abort.    *)
(***************************************************************************)
C10_Terminates == <>(pc \in {"done", "aborted"})

\* while the padding loop runs, it can still reach length 8
C10_PadCanFinish == pc = "pad" => Len(num) <= 8

====
